---------------------------- MODULE Spec2Model ----------------------------
(***************************************************************************)
(* Cart-pole (inverted pendulum) environment of NEAT-games.                *)
(*                                                                         *)
(*   InvertedPendulum/game/pendulum.py    human play: InvertedPendulum,    *)
(*                                        InvertedPendulumGame.game_round  *)
(*   InvertedPendulumAi/game/pendulum.py  multi-agent: InvertedPendulum,   *)
(*                                        run_pendulum                     *)
(*                                                                         *)
(* Floats are fixed-point integers: positions and velocities in 1/1000     *)
(* pixel, angles and angular velocities in micro-radians, fitness in       *)
(* millionths.  Divisions truncate toward zero, so the arithmetic is       *)
(* mirror-symmetric like IEEE arithmetic is.                               *)
(***************************************************************************)
EXTENDS Integers, Sequences, FiniteSets, TLC

-----------------------------------------------------------------------------
(* Program constants *)

\* WINDOWDIMS[0], pixels
WINDOWWIDTH == 1200
\* CARTDIMS[0], pixels
CARTWIDTH == 50
\* PENDULUMDIMS[1], pixels
PENDULUMLENGTH == 200
\* A_CART = 0.15, in thousandths
A_CART == 150
\* GRAVITY = 0.13 (human play), in thousandths
GRAVITY_HUMAN == 130
\* GRAVITY = 0.10 (multi-agent), in thousandths
GRAVITY_AI == 100
\* the friction factor 0.98 of the multi-agent "None" action, in percent
FRICTION_PCT == 98
\* the terminal penalty 5 of run_pendulum
DEATH_PENALTY == 5

\* fixed-point resolution of x_cart and v_cart: units per pixel
PosScale == 1000
\* fixed-point resolution of theta, omega, sin, cos and fitness: units per 1.0
FxOne == 1000000

\* np.pi / 2 = 1.5707963...: the least fixed-point angle that is >= pi/2
HALF_PI_UP == 1570797
\* np.pi / 4 = 0.7853981...: the greatest fixed-point angle that is <= pi/4
QUARTER_PI_DOWN == 785398

\* CARTWIDTH / 2 and WINDOWWIDTH - CARTWIDTH / 2, the wall bounds of the cart
LeftBound == (CARTWIDTH * PosScale) \div 2
RightBound == WINDOWWIDTH * PosScale - (CARTWIDTH * PosScale) \div 2

-----------------------------------------------------------------------------
(* Fixed-point arithmetic *)

Abs(a) == IF a < 0 THEN -a ELSE a
Sgn(a) == IF a < 0 THEN -1 ELSE (IF a > 0 THEN 1 ELSE 0)

\* a / b truncated toward zero (b > 0)
TDiv(a, b) == Sgn(a) * (Abs(a) \div b)

\* a * b / FxOne for a, b >= 0, computed in 32 bits by splitting at 1000
FxMulPos(a, b) ==
    LET ah == a \div 1000
        al == a % 1000
        bh == b \div 1000
        bl == b % 1000
    IN  ah * bh + ((ah * bl + al * bh + (al * bl) \div 1000) \div 1000)

\* a * b / FxOne, truncated toward zero
FxMul(a, b) == Sgn(a) * Sgn(b) * FxMulPos(Abs(a), Abs(b))

\* x * x / FxOne
FxSquare[x \in Int] == FxMulPos(Abs(x), Abs(x))

\* np.sin(theta): odd Taylor polynomial up to x^11, x in micro-radians,
\* result scaled by FxOne
np_sin[x \in Int] ==
    LET q  == FxSquare[x]
        t5 == FxOne - TDiv(q, 110)
        t4 == FxOne - TDiv(FxMul(q, t5), 72)
        t3 == FxOne - TDiv(FxMul(q, t4), 42)
        t2 == FxOne - TDiv(FxMul(q, t3), 20)
        t1 == FxOne - TDiv(FxMul(q, t2), 6)
    IN  FxMul(x, t1)

\* np.cos(theta): even Taylor polynomial up to x^10, result scaled by FxOne
np_cos[x \in Int] ==
    LET q  == FxSquare[x]
        t5 == FxOne - TDiv(q, 90)
        t4 == FxOne - TDiv(FxMul(q, t5), 56)
        t3 == FxOne - TDiv(FxMul(q, t4), 30)
        t2 == FxOne - TDiv(FxMul(q, t3), 12)
    IN  FxOne - TDiv(FxMul(q, t2), 2)

-----------------------------------------------------------------------------
(* InvertedPendulum: the physics state and its update rule *)

\* get_state / set_state: the six fields of one pendulum
State(d, t, x, v, th, om) ==
    [is_dead |-> d, time |-> t, x_cart |-> x, v_cart |-> v,
     theta |-> th, omega |-> om]

\* the outcome of one update_state call: the state the object is left in,
\* the exception raised ("none" when the call returns) and the returned tuple
Outcome(s, raised) ==
    [state |-> s, raised |-> raised,
     ret |-> IF raised = "none"
             THEN <<s.time, s.x_cart, s.v_cart, s.theta, s.omega>>
             ELSE <<>>]

\* a value that is not a Python str
NonStr == "<non-str>"

\* a wall clamp without its elif branch: the right wall does not stop the cart
move_cart_no_right(s) ==
    IF s.x_cart + s.v_cart <= LeftBound
    THEN [s EXCEPT !.time = s.time + 1, !.x_cart = LeftBound, !.v_cart = 0]
    ELSE [s EXCEPT !.time = s.time + 1, !.x_cart = s.x_cart + s.v_cart]

\* a wall clamp that stops the cart at the wall but keeps its velocity
move_cart_keep_v(s) ==
    IF s.x_cart + s.v_cart <= LeftBound
    THEN [s EXCEPT !.time = s.time + 1, !.x_cart = LeftBound]
    ELSE IF s.x_cart + s.v_cart >= RightBound
    THEN [s EXCEPT !.time = s.time + 1, !.x_cart = RightBound]
    ELSE [s EXCEPT !.time = s.time + 1, !.x_cart = s.x_cart + s.v_cart]

\* time += 1; x_cart += v_cart; then the wall clamp of the cart
move_cart(s) ==
    LET x1 == s.x_cart + s.v_cart
    IN  IF x1 <= LeftBound
        THEN [s EXCEPT !.time = s.time + 1, !.x_cart = LeftBound, !.v_cart = 0]
        ELSE IF x1 >= RightBound
        THEN [s EXCEPT !.time = s.time + 1, !.x_cart = RightBound, !.v_cart = 0]
        ELSE [s EXCEPT !.time = s.time + 1, !.x_cart = x1]

\* a swing whose gravity term takes the cosine of the angle
swing_cos_gravity(s, gravity) ==
    LET th1 == s.theta + s.omega
                 + TDiv(FxMul(s.v_cart * (FxOne \div PosScale), np_cos[s.theta]),
                        PENDULUMLENGTH)
        om1 == s.omega + TDiv(TDiv(gravity * np_cos[th1], 1000), PENDULUMLENGTH)
    IN  [s EXCEPT !.theta = th1, !.omega = om1]

\* a swing whose omega update reads the angle from before the theta update
swing_stale_angle(s, gravity) ==
    [s EXCEPT !.theta = s.theta + s.omega
                        + TDiv(FxMul(s.v_cart * (FxOne \div PosScale), np_cos[s.theta]),
                               PENDULUMLENGTH),
              !.omega = s.omega + TDiv(TDiv(gravity * np_sin[s.theta], 1000),
                                       PENDULUMLENGTH)]

\* theta += omega + v_cart * cos(theta) / PENDULUMLENGTH, then
\* omega += GRAVITY * sin(theta) / PENDULUMLENGTH with the new theta
swing(s, gravity) ==
    LET th1 == s.theta + s.omega
                 + TDiv(FxMul(s.v_cart * (FxOne \div PosScale), np_cos[s.theta]),
                        PENDULUMLENGTH)
        om1 == s.omega + TDiv(TDiv(gravity * np_sin[th1], 1000), PENDULUMLENGTH)
    IN  [s EXCEPT !.theta = th1, !.omega = om1]

\* the action branch of the human-play update_state: "None" stops the cart
apply_action_human(s, action) ==
    IF action = "Left" THEN Outcome([s EXCEPT !.v_cart = s.v_cart - A_CART], "none")
    ELSE IF action = "Right" THEN Outcome([s EXCEPT !.v_cart = s.v_cart + A_CART], "none")
    ELSE IF action = "None" THEN Outcome([s EXCEPT !.v_cart = 0], "none")
    ELSE Outcome(s, "RuntimeError:action")

\* the action branch of the multi-agent update_state: "None" is friction
apply_action_ai(s, action) ==
    IF action = "Left" THEN Outcome([s EXCEPT !.v_cart = s.v_cart - A_CART], "none")
    ELSE IF action = "Right" THEN Outcome([s EXCEPT !.v_cart = s.v_cart + A_CART], "none")
    ELSE IF action = "None"
    THEN Outcome([s EXCEPT !.v_cart = TDiv(s.v_cart * FRICTION_PCT, 100)], "none")
    ELSE Outcome(s, "RuntimeError:action")

\* the terminal check of the human-play update_state: the angle alone
check_fallen_human(s) ==
    IF Abs(s.theta) >= HALF_PI_UP THEN [s EXCEPT !.is_dead = TRUE] ELSE s

\* a multi-agent terminal check that forgets the walls
check_fallen_ai_angle_only(s) ==
    IF Abs(s.theta) >= HALF_PI_UP THEN [s EXCEPT !.is_dead = TRUE] ELSE s

\* the terminal check of the multi-agent update_state: the angle or a wall
check_fallen_ai(s) ==
    IF Abs(s.theta) >= HALF_PI_UP
       \/ s.x_cart <= LeftBound
       \/ s.x_cart >= RightBound
    THEN [s EXCEPT !.is_dead = TRUE] ELSE s

\* the end of update_state: an exception of the action branch propagates,
\* otherwise the terminal check runs and the tuple is returned
finish_human(acted) ==
    IF acted.raised # "none" THEN acted
    ELSE Outcome(check_fallen_human(acted.state), "none")

finish_ai(acted) ==
    IF acted.raised # "none" THEN acted
    ELSE Outcome(check_fallen_ai(acted.state), "none")

\* the body of update_state on a live pendulum, human play
step_human(s, action) ==
    finish_human(apply_action_human(swing(move_cart(s), GRAVITY_HUMAN), action))

\* the body of update_state on a live pendulum, multi-agent
step_ai(s, action) ==
    finish_ai(apply_action_ai(swing(move_cart(s), GRAVITY_AI), action))

\* no dead check, and a terminal check that assigns the flag: the update runs
\* on the dead pendulum and is_dead becomes abs(theta) >= pi/2
on_dead_human_unguarded(s, action) ==
    step_human([s EXCEPT !.is_dead = FALSE], action)

\* if self.is_dead: raise RuntimeError, human play
on_dead_human(s, action) == Outcome(s, "RuntimeError:dead")

\* a dead check placed after the time increment
on_dead_ai_late(s, action) ==
    Outcome([s EXCEPT !.time = s.time + 1], "RuntimeError:dead")

\* if self.is_dead: raise RuntimeError, multi-agent
on_dead_ai(s, action) == Outcome(s, "RuntimeError:dead")

\* InvertedPendulum.update_state of InvertedPendulum/game/pendulum.py
update_state_human(s, action) ==
    IF action = NonStr THEN Outcome(s, "AssertionError")
    ELSE IF s.is_dead THEN on_dead_human(s, action)
    ELSE step_human(s, action)

\* InvertedPendulum.update_state of InvertedPendulumAi/game/pendulum.py
update_state_ai(s, action) ==
    IF action = NonStr THEN Outcome(s, "AssertionError")
    ELSE IF s.is_dead THEN on_dead_ai(s, action)
    ELSE step_ai(s, action)

\* update_state of the class of the given program variant
update_state(variant, s, action) ==
    IF variant = "human" THEN update_state_human(s, action)
    ELSE update_state_ai(s, action)

-----------------------------------------------------------------------------
(* Bounds of the model *)

\* ticks after which the drivers step no further
MaxTime == 90
\* update_state calls of one test-harness run after its set_state
MaxCalls == 2
\* genomes of one generation
PopSize == 2
\* key events of one human-play round
MaxKeyEvents == 3
\* the player changes keys only every KeyPeriod-th tick
KeyPeriod == 25

\* iterations of Game.run after which the pole game is watched no further
MaxPoleFrames == 36

\* the keys held change only every PoleKeyPeriod iterations of Game.run
PoleKeyPeriod == 9

\* frames after which run_bird is watched no further
MaxFrames == 60

Ids == 1 .. PopSize

\* the draws of random.randint(150, 400) in get_random_pipes
PipeSizes == {150, 400}

\* the networks of the birds
BirdNets == {"never", "always", "hover", "track"}

\* the values np.random.uniform(-0.01, 0.01) is drawn from in human play
HumanThetas == {-10000, 0, 5000}

\* the draws of the multi-agent reset_state (x in [0.4, 0.6) * WINDOWWIDTH,
\* v in [-1, 1), theta in [-pi/4, pi/4)) and the network of the genome
AgentSetups ==
    { [x |-> 600 * PosScale, v |-> 0,     theta |-> 0,                net |-> "coast"],
      [x |-> 480 * PosScale, v |-> -1000, theta |-> -QUARTER_PI_DOWN, net |-> "push_left"],
      [x |-> 719 * PosScale, v |-> 999,   theta |-> QUARTER_PI_DOWN,  net |-> "push_right"],
      [x |-> 650 * PosScale, v |-> 500,   theta |-> 600000,           net |-> "coast"],
      [x |-> 550 * PosScale, v |-> -300,  theta |-> -700000,          net |-> "lean"] }

\* states handed to set_state: next to both walls, out of the window, and
\* angles around +-pi/2 and pi/4
SetXs == {0, LeftBound + 100, 600 * PosScale, RightBound - 100, RightBound + 250}
SetVs == {-3000, -100, 0, 100, 3000}
SetThetas == {-(HALF_PI_UP - 1), 0, QUARTER_PI_DOWN + 1, HALF_PI_UP - 400, HALF_PI_UP}
SetOmegas == {0, 300}
SetStates ==
    { State(d, 0, x, v, th, om) :
        d \in BOOLEAN, x \in SetXs, v \in SetVs, th \in SetThetas, om \in SetOmegas }

\* the actions a caller may pass to update_state
ActionInputs == {"Left", "Right", "None", "Jump", NonStr}

-----------------------------------------------------------------------------
(* reset_state *)

\* InvertedPendulum.reset_state of human play, theta0 the random draw
reset_state_human(theta0) ==
    State(FALSE, 0, (WINDOWWIDTH * PosScale) \div 2, 0, theta0, 0)

\* InvertedPendulum.reset_state of the multi-agent variant, x0, v0, theta0 the draws
reset_state_ai(x0, v0, theta0) == State(FALSE, 0, x0, v0, theta0, 0)

-----------------------------------------------------------------------------
(* run_pendulum: observation, decision, reward *)

\* the four network inputs built from get_state, scaled by FxOne
inputs(s) ==
    << TDiv((s.x_cart - 600 * PosScale) * 5, 3),
       s.v_cart * 200,
       np_sin[s.theta],
       TDiv(s.omega, 5) >>

\* nets[i].activate(inputs): the three outputs of a feed-forward network
activate(net, in) ==
    IF net = "push_left" THEN <<FxOne, 0, 0>>
    ELSE IF net = "coast" THEN <<0, FxOne, 0>>
    ELSE IF net = "push_right" THEN <<0, 0, FxOne>>
    ELSE <<-in[3], -FxOne, in[3]>>

\* np.argmax: the first index of the greatest output (0-based)
argmax(out) ==
    IF out[1] >= out[2] /\ out[1] >= out[3] THEN 0
    ELSE IF out[2] >= out[3] THEN 1 ELSE 2

\* action = ["Left", "None", "Right"][np.argmax(output)]
decide(net, s) == <<"Left", "None", "Right">>[argmax(activate(net, inputs(s))) + 1]

\* the survival reward 0.1 of a tick
SURVIVAL_REWARD == 100000
\* 0.1 / (np.pi / 2), the weight of |theta| in the angle reward
ANGLE_WEIGHT == 63662
\* the penalty 0.5 of a tick with theta > pi/4
LEAN_PENALTY == 500000

\* the fitness a genome earns in one tick, from its pendulum after update_state
tick_reward(s) ==
    SURVIVAL_REWARD
    - TDiv(Abs(s.x_cart - 600 * PosScale), 600)
    + (SURVIVAL_REWARD - FxMul(Abs(s.theta), ANGLE_WEIGHT))
    - (IF s.theta > QUARTER_PI_DOWN THEN LEAN_PENALTY ELSE 0)

\* a pop that removes nothing
pop_nothing(seq, k) == seq

\* a pop that ignores its index and removes the last element
pop_last(seq, k) == SubSeq(seq, 1, Len(seq) - 1)

\* list.pop(i) on a 1-based sequence
pop(seq, k) == [j \in 1 .. (Len(seq) - 1) |-> IF j < k THEN seq[j] ELSE seq[j + 1]]

\* an enumeration that skips every other pendulum
enumerate_skip(k) == k + 2

\* enumerate(pendulums): the index after i
enumerate_next(k) == k + 1

\* a removal pass that starts one short of the end of the list
reversed_first_short(n) == n - 1

\* reversed(range(len(pendulums))): the first index visited (1-based)
reversed_first(n) == n

\* a construction loop that appends one and the same pendulum object for
\* every genome
new_pendulum_shared(k) == 1

\* a construction loop that puts each new pendulum at the front of the list
new_pendulum_front(k) == PopSize + 1 - k

\* pendulum = InvertedPendulum(...): the object built for the k-th genome
new_pendulum(k) == k

\* a loop condition that gives up while one pendulum is still live
loop_continues_crowd(ps, gs) == Len(ps) > 1 /\ Len(gs) > 1

\* while pendulums and ge: both lists are non-empty
loop_continues(ps, gs) == ps # <<>> /\ gs # <<>>

\* a leaderboard that sorts by reordering the list ge itself
leaderboard_in_place(gs) == [k \in 1 .. Len(gs) |-> gs[Len(gs) + 1 - k]]

\* the top-3 display of a rendered tick: sorted(range(len(ge)), ...) builds a
\* list of indices and leaves ge as it is
leaderboard(gs) == gs

\* the window events one pygame.event.get() of a rendered tick can return
WindowEvents == {"none", "QUIT", "KEYDOWN:K_ESCAPE"}

\* a reward credited to the k-th genome of the generation, not of the live list
scored_genome_original(gs, k) == k

\* ge[i], the genome whose fitness the for loop credits
scored_genome(gs, k) == gs[k]

\* a removal test that also retires a pendulum leaning past pi/4
is_removed_leaning(s) == s.is_dead \/ Abs(s.theta) > QUARTER_PI_DOWN

\* the removal test of the removal pass
is_removed(s) == s.is_dead

-----------------------------------------------------------------------------
(* game_round: key events *)

KeyEvents == {"KEYDOWN:K_LEFT", "KEYDOWN:K_RIGHT", "KEYUP:K_LEFT", "KEYUP:K_RIGHT",
              "KEYUP:K_ESCAPE", "QUIT"}

\* the event handler of game_round: the action after one event, or "exit"
handle_event(act, ev) ==
    IF ev = "QUIT" THEN "exit"
    ELSE IF ev = "KEYDOWN:K_LEFT" THEN "Left"
    ELSE IF ev = "KEYDOWN:K_RIGHT" THEN "Right"
    ELSE IF ev \in {"KEYUP:K_LEFT", "KEYUP:K_RIGHT"} THEN "None"
    ELSE IF ev = "KEYUP:K_ESCAPE" THEN "exit"
    ELSE act

\* the keys held after one event
hold(keys, ev) ==
    IF ev = "KEYDOWN:K_LEFT" THEN keys \cup {"K_LEFT"}
    ELSE IF ev = "KEYDOWN:K_RIGHT" THEN keys \cup {"K_RIGHT"}
    ELSE IF ev = "KEYUP:K_LEFT" THEN keys \ {"K_LEFT"}
    ELSE IF ev = "KEYUP:K_RIGHT" THEN keys \ {"K_RIGHT"}
    ELSE keys

\* the events the keyboard can deliver while `keys` are held
possible(keys, ev) ==
    IF ev = "KEYDOWN:K_LEFT" THEN "K_LEFT" \notin keys
    ELSE IF ev = "KEYDOWN:K_RIGHT" THEN "K_RIGHT" \notin keys
    ELSE IF ev = "KEYUP:K_LEFT" THEN "K_LEFT" \in keys
    ELSE IF ev = "KEYUP:K_RIGHT" THEN "K_RIGHT" \in keys
    ELSE TRUE

\* the event lists one pygame.event.get() returns: no event, or one event
EventLists(keys) == {<<>>} \cup { <<ev>> : ev \in {e \in KeyEvents : possible(keys, e)} }

\* the for loop over the events of one poll: the action it leaves, or "exit"
RECURSIVE handle_events(_, _)
handle_events(act, evs) ==
    IF evs = <<>> THEN act
    ELSE LET a1 == handle_event(act, Head(evs))
         IN  IF a1 = "exit" THEN "exit" ELSE handle_events(a1, Tail(evs))

\* the keys held after the events of one poll
RECURSIVE hold_all(_, _)
hold_all(keys, evs) ==
    IF evs = <<>> THEN keys ELSE hold_all(hold(keys, Head(evs)), Tail(evs))

-----------------------------------------------------------------------------
(* game/flappy.py: sprites, pipes and collisions.  Coordinates are pixels,   *)
(* fitness of run_bird is counted in hundredths.                             *)

SCREEN_WIDHT == 400
SCREEN_HEIGHT == 600
\* SPEED, the flap strength and the initial falling speed of a bird
SPEED == 20
\* GRAVITY = 2.0 of flappy.py
BIRD_GRAVITY == 2
GAME_SPEED == 40
GROUND_WIDHT == 2 * SCREEN_WIDHT
GROUND_HEIGHT == 100
PIPE_WIDHT == 80
PIPE_HEIGHT == 500
PIPE_GAP == 200
\* the size of the bird image, bluebird-upflap.png
BIRD_WIDTH == 34
BIRD_HEIGHT == 24
\* int(SCREEN_WIDHT / 6), the left edge of every bird
BIRD_LEFT == SCREEN_WIDHT \div 6
\* xpos of the first initial pipe pair
FIRST_PIPE_X == 800
\* xpos of the ground sprite added when the first one is off screen
NEW_GROUND_X == GROUND_WIDHT - 20
\* fitness per tick 0.05, per passed pipe pair 5, at removal -1, in hundredths
TICK_FITNESS == 5
PIPE_FITNESS == 500
BIRD_PENALTY == 100

\* Bird.__init__: vertical position rect[1] and speed
Bird == [y |-> SCREEN_HEIGHT \div 2, speed |-> SPEED]

\* Bird.bump
bump(b) == [b EXCEPT !.speed = -SPEED]

\* Bird.update: gravity, then the move
bird_update(b) ==
    [b EXCEPT !.speed = b.speed + BIRD_GRAVITY,
              !.y = b.y + b.speed + BIRD_GRAVITY]

\* Pipe.__init__: the rect of a pipe sprite
Pipe(inverted, xpos, ysize) ==
    [inverted |-> inverted, x |-> xpos,
     y |-> IF inverted THEN -(PIPE_HEIGHT - ysize) ELSE SCREEN_HEIGHT - ysize]

\* a pipe factory that builds the pair on the far side of the screen origin
get_random_pipes_mirrored(xpos, size) ==
    << Pipe(FALSE, -xpos, size), Pipe(TRUE, -xpos, SCREEN_HEIGHT - size - PIPE_GAP) >>

\* get_random_pipes(xpos), size the draw of random.randint(150, 400)
get_random_pipes(xpos, size) ==
    << Pipe(FALSE, xpos, size), Pipe(TRUE, xpos, SCREEN_HEIGHT - size - PIPE_GAP) >>

\* an off-screen test that lets a sprite travel twenty widths past the edge
is_off_screen_late(x, width) == x < -(20 * width)

\* is_off_screen(sprite): rect[0] < -rect[2]
is_off_screen(x, width) == x < -width

\* group.remove(group.sprites()[0])
remove_first(group) == Tail(group)

\* birds.pop(i), nets.pop(i), ge.pop(i) of run_bird on a 1-based sequence
pop_index(seq, k) == [j \in 1 .. (Len(seq) - 1) |-> IF j < k THEN seq[j] ELSE seq[j + 1]]

\* Pipe.update / Ground.update of every sprite of a group
move_left(group) == [k \in 1 .. Len(group) |-> [group[k] EXCEPT !.x = @ - GAME_SPEED]]

\* the first non-inverted pipe whose right edge is right of the bird's left
\* edge, as an index into pipe_group; 0 stands for None
RECURSIVE next_pipe_from(_, _)
next_pipe_from(group, k) ==
    IF k > Len(group) THEN 0
    ELSE IF ~group[k].inverted /\ group[k].x + PIPE_WIDHT > BIRD_LEFT THEN k
    ELSE next_pipe_from(group, k + 1)

next_pipe(group) == next_pipe_from(group, 1)

\* the four network inputs of a bird, times 600
bird_inputs(b, pipe) ==
    << b.y,
       ((pipe.x - BIRD_LEFT) * 3) \div 2,
       pipe.y - PIPE_GAP \div 2 - (b.y + BIRD_HEIGHT \div 2),
       b.speed * 30 >>

\* nets[index].activate(inputs)[0] > 0.5 for the networks of the model
flaps(net, in) ==
    IF net = "always" THEN TRUE
    ELSE IF net = "never" THEN FALSE
    ELSE IF net = "hover" THEN in[1] > SCREEN_HEIGHT \div 2
    ELSE in[3] < 0

\* two rects overlap (the sprite masks are taken as full rectangles)
overlap(ax, ay, aw, ah, bx, by, bw, bh) ==
    ax < bx + bw /\ ax + aw > bx /\ ay < by + bh /\ ay + ah > by

\* pygame.sprite.spritecollideany(bird, pipe_group, collide_mask)
hit_pipe(b, group) ==
    \E k \in 1 .. Len(group) :
        overlap(BIRD_LEFT, b.y, BIRD_WIDTH, BIRD_HEIGHT,
                group[k].x, group[k].y, PIPE_WIDHT, PIPE_HEIGHT)

\* pygame.sprite.spritecollideany(bird, ground_group, collide_mask)
hit_ground(b, group) ==
    \E k \in 1 .. Len(group) :
        overlap(BIRD_LEFT, b.y, BIRD_WIDTH, BIRD_HEIGHT,
                group[k].x, SCREEN_HEIGHT - GROUND_HEIGHT, GROUND_WIDHT, GROUND_HEIGHT)

\* a bounds test that forgets the top of the screen
out_of_bounds_below(b) == b.y > SCREEN_HEIGHT

\* out_of_bounds = (bird.rect[1] > SCREEN_HEIGHT or bird.rect[1] < 0)
out_of_bounds(b) == b.y > SCREEN_HEIGHT \/ b.y < 0

-----------------------------------------------------------------------------
(* PoleBalancing/game/pole.py: angles in millionths of a degree               *)

\* MAX_ANGLE, degrees
MAX_ANGLE == 45
\* FPS of pole.py
POLE_FPS == 60
\* FRICTION = 0.98 of pole.py, in percent
POLE_FRICTION_PCT == 98
\* the factor 0.3 of the gravity torque, in tenths
TORQUE_TENTHS == 3
\* the change 0.5 of angular_velocity by a player input
PUSH == 500000
\* the clamp 5 of angular_velocity, degrees per frame
MAX_SPIN == 5
\* is_balanced: abs(angle) < 10
BALANCED_ANGLE == 10
\* math.radians of one degree, in millionths of a radian
RAD_PER_DEG == 17453

\* max(min(a, hi), -hi)
clamp(a, hi) == IF a > hi THEN hi ELSE (IF a < -hi THEN -hi ELSE a)

\* Game.__init__: a pipe at angle 0 at rest, counters 0, game_over False
NewGame ==
    [angle |-> 0, angular_velocity |-> 0, time |-> 0, balanced_time |-> 0,
     score |-> 0, game_over |-> FALSE]

\* Pipe.update(player_input): torque, input, friction, clamp, angle, clamp
pipe_update(g, player_input) ==
    LET torque == TDiv(np_sin[FxMul(g.angle, RAD_PER_DEG)] * TORQUE_TENTHS, 10)
        pushed == g.angular_velocity + torque
                  + (IF player_input = "left" THEN -PUSH
                     ELSE IF player_input = "right" THEN PUSH ELSE 0)
        spin   == clamp(TDiv(pushed * POLE_FRICTION_PCT, 100), MAX_SPIN * FxOne)
    IN  [g EXCEPT !.angular_velocity = spin,
                  !.angle = clamp(g.angle + spin, MAX_ANGLE * FxOne)]

\* Pipe.is_balanced
is_balanced(g) == Abs(g.angle) < BALANCED_ANGLE * FxOne

\* the rest of Game.update after the game_over test
game_update_running(g, player_input) ==
    LET p == pipe_update(g, player_input)
        b == IF is_balanced(p) THEN g.balanced_time + 1 ELSE 0
    IN  [p EXCEPT !.time = g.time + 1,
                  !.balanced_time = b,
                  !.score = IF is_balanced(p) THEN b \div POLE_FPS ELSE g.score,
                  !.game_over = Abs(p.angle) >= MAX_ANGLE * FxOne]

\* a Game.update without the game_over test
game_update_unguarded(g, player_input) == game_update_running(g, player_input)

\* Game.update(player_input)
game_update(g, player_input) ==
    IF g.game_over THEN g ELSE game_update_running(g, player_input)

\* pygame.key.get_pressed() read by handle_input: left wins over right
PlayerInputs == {"None", "left", "right"}

\* the event of one handle_input call
PoleEvents == {"none", "QUIT", "KEYDOWN:K_ESCAPE", "KEYDOWN:K_SPACE"}

-----------------------------------------------------------------------------
(* State *)

VARIABLES
    mode,        \* which program runs: "unit" (a caller of the class), "ai", "human"
    variant,     \* the InvertedPendulum class in use: "human" or "ai"
    pc,          \* the position of the running program
    obj,         \* the pendulum objects: obj[g] is the state of pendulum g
    last,        \* the last update_state call: its object, action, pre-state, outcome
    calls,       \* unit: update_state calls since the last set_state
    pendulums,   \* run_pendulum: the live list of pendulums (object ids)
    nets,        \* run_pendulum: the networks, parallel to pendulums
    ge,          \* run_pendulum: the genomes, parallel to pendulums
    net_of,      \* run_pendulum: the network built from each genome
    fitness,     \* run_pendulum: g.fitness of each genome
    i,           \* run_pendulum: the index of the running for loop
    ticks,       \* run_pendulum: completed iterations of the while loop
    tickLive,    \* history: the pendulums in the live list when the tick began
    tick0,       \* history: every pendulum state and fitness when the tick began
    FAST_MODE,   \* run_pendulum: the module flag FAST_MODE (headless if TRUE)
    display,     \* run_pendulum: the pygame display: "none", "open" or "quit"
    twin,        \* history: the same generation run tick by tick with FAST_MODE true
    own,         \* history: the trace of each agent on its own, and its reward sum
    birds,       \* run_bird: the live list of birds (object ids)
    bird,        \* run_bird: the bird objects: bird[g] is y and speed of bird g
    pipe_group,  \* run_bird: the pipe sprites in the order of the group
    ground_group, \* run_bird: the ground sprites in the order of the group
    score,       \* run_bird: pipe pairs recycled
    game,        \* pole: the Game object with its pipe
    player_input, \* pole: the local player_input of Game.run
    running,     \* pole: the local running of Game.run
    frames,      \* pole: iterations of Game.run begun
    updated,     \* pole history: the Game before the latest Game.update call
    stepped,     \* history: update_state calls on each pendulum in this tick
    rewarded,    \* history: per-tick rewards given to each genome in this tick
    penalties,   \* history: terminal penalties given to each genome
    init0,       \* history: the state each pendulum was constructed in
    action,      \* game_round: the local variable action
    held,        \* game_round: the keys the player holds
    keyEvents,   \* game_round: key events delivered in this round
    game_time,   \* InvertedPendulumGame.time
    high_score   \* InvertedPendulumGame.high_score, in ticks

vars == << mode, variant, pc, obj, last, calls, pendulums, nets, ge, net_of,
           fitness, i, ticks, tickLive, tick0, FAST_MODE, display, twin, own,
           stepped, rewarded, penalties, init0, action, held, keyEvents,
           game_time, high_score, birds, bird, pipe_group, ground_group, score,
           game, player_input, running, frames, updated >>

aiVars == << pendulums, nets, ge, net_of, fitness, i, ticks, tickLive, tick0,
             FAST_MODE, display, twin, own, stepped,
             rewarded, penalties, init0 >>
humanVars == << action, held, keyEvents, game_time, high_score >>
birdVars == << birds, bird, pipe_group, ground_group, score >>
poleVars == << game, player_input, running, frames, updated >>

NoState == State(FALSE, 0, 0, 0, 0, 0)
NoCall == [who |-> 0, action |-> "", pre |-> NoState,
           out |-> [state |-> NoState, raised |-> "no call", ret |-> <<>>]]

\* an update_state whose cart velocity also depends on which object is called
Call_by_identity(g, act, s) ==
    [who |-> g, action |-> act, pre |-> s,
     out |-> update_state(variant, [s EXCEPT !.v_cart = @ + g], act)]

\* the record of one update_state call on object g
Call(g, act, s) ==
    [who |-> g, action |-> act, pre |-> s, out |-> update_state(variant, s, act)]

AiIdle ==
    /\ pendulums = <<>> /\ nets = <<>> /\ ge = <<>>
    /\ net_of = <<>> /\ fitness = <<>> /\ i = 0 /\ ticks = 0
    /\ tickLive = {} /\ stepped = <<>> /\ rewarded = <<>> /\ penalties = <<>>
    /\ tick0 = <<>>
    /\ FAST_MODE = TRUE /\ display = "none" /\ twin = <<>> /\ own = <<>>
    /\ init0 = <<>>

HumanIdle ==
    /\ action = "None" /\ held = {} /\ keyEvents = 0
    /\ game_time = 0 /\ high_score = 0

BirdIdle ==
    /\ birds = <<>> /\ bird = <<>> /\ pipe_group = <<>> /\ ground_group = <<>>
    /\ score = 0

PoleIdle ==
    /\ game = NewGame /\ player_input = "unbound" /\ running = TRUE
    /\ frames = 0 /\ updated = << >>

\* a caller that constructs one pendulum of either class
InitUnit ==
    /\ mode = "unit"
    /\ variant \in {"human", "ai"}
    /\ pc = "constructed"
    /\ obj = << IF variant = "human" THEN reset_state_human(0)
                ELSE reset_state_ai(600 * PosScale, 0, 0) >>
    /\ last = NoCall /\ calls = 0
    /\ AiIdle /\ HumanIdle /\ BirdIdle /\ PoleIdle

\* run_pendulum after its construction loop: one network and one pendulum per genome
InitAi ==
    /\ mode = "ai"
    /\ variant = "ai"
    /\ pc = "while"
    /\ \E setup \in [Ids -> AgentSetups] :
          /\ obj = [g \in Ids |-> reset_state_ai(setup[g].x, setup[g].v, setup[g].theta)]
          /\ net_of = [g \in Ids |-> setup[g].net]
    /\ init0 = obj
    /\ pendulums = [k \in Ids |-> new_pendulum(k)]
    /\ nets = [k \in Ids |-> k]
    /\ ge = [k \in Ids |-> k]
    /\ fitness = [g \in Ids |-> 0]
    /\ i = 0 /\ ticks = 0
    /\ tickLive = {}
    /\ tick0 = [obj |-> obj, fitness |-> fitness]
    /\ FAST_MODE \in BOOLEAN
    /\ display = (IF FAST_MODE THEN "none" ELSE "open")
    /\ twin = [obj |-> obj, fitness |-> fitness, pendulums |-> pendulums,
               nets |-> nets, ge |-> ge]
    /\ own = [g \in Ids |-> [state |-> obj[g], sum |-> 0]]
    /\ stepped = [g \in Ids |-> 0]
    /\ rewarded = [g \in Ids |-> 0]
    /\ penalties = [g \in Ids |-> 0]
    /\ last = NoCall /\ calls = 0
    /\ HumanIdle /\ BirdIdle /\ PoleIdle

\* InvertedPendulumGame after __init__, in game() before a round
InitHuman ==
    /\ mode = "human"
    /\ variant = "human"
    /\ pc = "game"
    /\ \E th \in HumanThetas : obj = << reset_state_human(th) >>
    /\ last = NoCall /\ calls = 0
    /\ AiIdle /\ HumanIdle /\ BirdIdle /\ PoleIdle

\* run_bird after its construction loop: two ground sprites, two pipe pairs,
\* one network and one bird per genome, every fitness 0
InitBird ==
    /\ mode = "bird"
    /\ variant = "ai"
    /\ pc = "while"
    /\ obj = <<>> /\ last = NoCall /\ calls = 0
    /\ net_of \in [Ids -> BirdNets]
    /\ birds = [k \in Ids |-> k]
    /\ bird = [g \in Ids |-> Bird]
    /\ nets = [k \in Ids |-> k]
    /\ ge = [k \in Ids |-> k]
    /\ fitness = [g \in Ids |-> 0]
    /\ \E s1 \in PipeSizes, s2 \in PipeSizes :
          pipe_group = get_random_pipes(SCREEN_WIDHT * 0 + FIRST_PIPE_X, s1)
                       \o get_random_pipes(SCREEN_WIDHT * 1 + FIRST_PIPE_X, s2)
    /\ ground_group = << [x |-> 0], [x |-> GROUND_WIDHT] >>
    /\ score = 0
    /\ i = 0 /\ ticks = 0
    /\ display = "open"
    /\ stepped = [g \in Ids |-> 0]
    /\ rewarded = [g \in Ids |-> 0]
    /\ penalties = [g \in Ids |-> 0]
    /\ pendulums = <<>> /\ tickLive = {} /\ tick0 = <<>> /\ FAST_MODE = TRUE
    /\ twin = <<>> /\ own = <<>> /\ init0 = <<>>
    /\ HumanIdle /\ PoleIdle

\* game = Game() at the start of game.run()
InitPole ==
    /\ mode = "pole"
    /\ variant = "human"
    /\ pc = "input"
    /\ obj = <<>> /\ last = NoCall /\ calls = 0
    /\ AiIdle /\ HumanIdle /\ BirdIdle /\ PoleIdle

Init == InitUnit \/ InitAi \/ InitHuman

-----------------------------------------------------------------------------
(* A caller of the class: it constructs a pendulum, may set_state it, and *)
(* calls update_state                                                     *)

\* InvertedPendulum.set_state(s) on the freshly constructed pendulum
set_state(s) ==
    /\ mode = "unit" /\ pc = "constructed"
    /\ obj' = << s >>
    /\ calls' = 0
    /\ last' = NoCall
    /\ pc' = "set"
    /\ UNCHANGED << mode, variant, aiVars, humanVars, birdVars, poleVars >>

\* one call InvertedPendulum.update_state(act) by the caller
call_update_state(act) ==
    /\ mode = "unit"
    /\ calls < MaxCalls
    /\ \E c \in {Call(1, act, obj[1])} :
          /\ last' = c
          /\ obj' = << c.out.state >>
          /\ pc' = IF c.out.raised = "none" THEN "returned" ELSE "raised"
    /\ calls' = calls + 1
    /\ UNCHANGED << mode, variant, aiVars, humanVars, birdVars, poleVars >>

-----------------------------------------------------------------------------
(* run_pendulum with FAST_MODE true, one whole tick as a function: tw holds   *)
(* the pendulum states, the fitness values and the three parallel lists      *)

\* the for loop over the pendulums from index k on: update_state and reward
RECURSIVE fast_step_all(_, _)
fast_step_all(tw, k) ==
    IF k > Len(tw.pendulums) THEN tw
    ELSE LET g == tw.pendulums[k]
             o == update_state_ai(tw.obj[g], decide(net_of[tw.nets[k]], tw.obj[g]))
         IN  fast_step_all([tw EXCEPT !.obj[g] = o.state,
                                      !.fitness[tw.ge[k]] = @ + tick_reward(o.state)],
                           k + 1)

\* the removal pass from index k down
RECURSIVE fast_remove_all(_, _)
fast_remove_all(tw, k) ==
    IF k < 1 THEN tw
    ELSE IF tw.obj[tw.pendulums[k]].is_dead
    THEN fast_remove_all([tw EXCEPT !.fitness[tw.ge[k]] = @ - DEATH_PENALTY * FxOne,
                                    !.ge = pop(tw.ge, k),
                                    !.nets = pop(tw.nets, k),
                                    !.pendulums = pop(tw.pendulums, k)],
                         k - 1)
    ELSE fast_remove_all(tw, k - 1)

\* one iteration of the while loop with FAST_MODE true
fast_tick(tw) == fast_remove_all(fast_step_all(tw, 1), Len(tw.pendulums))

\* one more tick of the trace of one agent on its own, from its own state and
\* network alone: r holds its state and the sum of its per-tick rewards so far;
\* the trace ends when the pendulum is dead
own_tick(r, net) ==
    IF r.state.is_dead THEN r
    ELSE LET o == update_state_ai(r.state, decide(net, r.state))
         IN  [state |-> o.state, sum |-> r.sum + tick_reward(o.state)]

-----------------------------------------------------------------------------
(* run_pendulum: the tick loop *)

\* while pendulums and ge: the loop is entered for one more tick; a rendered
\* tick polls the window events first: QUIT closes the display, Escape closes
\* it and leaves the program (sys.exit)
while_enter ==
    /\ mode = "ai" /\ pc = "while"
    /\ loop_continues(pendulums, ge)
    /\ ticks < MaxTime
    /\ \E ev \in (IF FAST_MODE THEN {"none"} ELSE WindowEvents) :
          /\ pc' = (IF ev = "KEYDOWN:K_ESCAPE" THEN "exited" ELSE "for")
          /\ display' = (IF ev = "none" THEN display ELSE "quit")
    /\ i' = 1
    /\ tickLive' = {pendulums[k] : k \in 1 .. Len(pendulums)}
    /\ tick0' = [obj |-> obj, fitness |-> fitness]
    /\ stepped' = [g \in Ids |-> 0]
    /\ rewarded' = [g \in Ids |-> 0]
    /\ UNCHANGED << mode, variant, obj, last, calls, pendulums, nets, ge, net_of,
                    fitness, ticks, FAST_MODE, twin, own, penalties, init0,
                    humanVars, birdVars, poleVars >>

\* while pendulums and ge: the lists are empty and run_pendulum returns
while_exit ==
    /\ mode = "ai" /\ pc = "while"
    /\ ~loop_continues(pendulums, ge)
    /\ pc' = "returned"
    /\ UNCHANGED << mode, variant, obj, last, calls, aiVars, humanVars, birdVars, poleVars >>

\* one iteration of for i, pendulum in enumerate(pendulums): observe, decide,
\* update_state, reward, and in a rendered tick the drawing of cart and
\* pendulum, which reads x_cart and theta; drawing on a display that has been
\* quit may raise pygame.error
for_body ==
    /\ mode = "ai" /\ pc = "for"
    /\ i <= Len(pendulums)
    /\ \E g \in {pendulums[i]} :
       \E act \in {decide(net_of[nets[i]], obj[g])} :
       \E c \in {Call(g, act, obj[g])} :
           /\ last' = c
           /\ obj' = [obj EXCEPT ![g] = c.out.state]
           /\ stepped' = [stepped EXCEPT ![g] = @ + 1]
           /\ IF c.out.raised = "none"
              THEN /\ fitness' = [fitness EXCEPT ![scored_genome(ge, i)] =
                                                  @ + tick_reward(c.out.state)]
                   /\ rewarded' = [rewarded EXCEPT ![scored_genome(ge, i)] = @ + 1]
                   /\ i' = enumerate_next(i)
                   /\ pc' \in (IF display = "quit" THEN {"for", "render_error"}
                                ELSE {"for"})
              ELSE /\ pc' = "crashed"
                   /\ UNCHANGED << fitness, rewarded, i >>
    /\ UNCHANGED << mode, variant, calls, pendulums, nets, ge, net_of, ticks,
                    tickLive, tick0, FAST_MODE, display, twin, own, penalties, init0,
                    humanVars, birdVars, poleVars >>

\* the for loop over the pendulums is exhausted; a rendered tick draws the time
\* and the top-3 leaderboard (pygame.font raises once pygame has been quit) and
\* updates the display; the removal pass begins
for_end ==
    /\ mode = "ai" /\ pc = "for"
    /\ i > Len(pendulums)
    /\ IF display = "quit"
       THEN /\ pc' = "render_error"
            /\ UNCHANGED << i, ge >>
       ELSE /\ pc' = "remove"
            /\ i' = reversed_first(Len(pendulums))
            /\ ge' = (IF FAST_MODE THEN ge ELSE leaderboard(ge))
    /\ UNCHANGED << mode, variant, obj, last, calls, pendulums, nets, net_of,
                    fitness, ticks, tickLive, tick0, FAST_MODE, display, twin, own,
                    stepped, rewarded, penalties, init0, humanVars, birdVars, poleVars >>

\* one iteration of for i in reversed(range(len(pendulums))): a dead pendulum is
\* penalised and popped from the three lists
remove_body ==
    /\ mode = "ai" /\ pc = "remove"
    /\ i >= 1
    /\ IF is_removed(obj[pendulums[i]])
       THEN /\ fitness' = [fitness EXCEPT ![ge[i]] = @ - DEATH_PENALTY * FxOne]
            /\ penalties' = [penalties EXCEPT ![ge[i]] = @ + 1]
            /\ ge' = pop(ge, i)
            /\ nets' = pop(nets, i)
            /\ pendulums' = pop(pendulums, i)
       ELSE UNCHANGED << fitness, penalties, ge, nets, pendulums >>
    /\ i' = i - 1
    /\ UNCHANGED << mode, variant, pc, obj, last, calls, net_of, ticks, tickLive,
                    tick0, FAST_MODE, display, twin, own, stepped, rewarded, init0,
                    humanVars, birdVars, poleVars >>

\* the removal pass is over: the tick ends
remove_end ==
    /\ mode = "ai" /\ pc = "remove"
    /\ i < 1
    /\ pc' = "while"
    /\ ticks' = ticks + 1
    /\ twin' = fast_tick(twin)
    /\ own' = [g \in Ids |-> own_tick(own[g], net_of[g])]
    /\ UNCHANGED << mode, variant, obj, last, calls, pendulums, nets, ge, net_of,
                    fitness, i, tickLive, tick0, FAST_MODE, display, stepped,
                    rewarded, penalties, init0, humanVars, birdVars, poleVars >>

-----------------------------------------------------------------------------
(* InvertedPendulumGame.game_round *)

\* the event lists the poll of this tick can return
polls ==
    IF obj[1].time % KeyPeriod = 0
    THEN {evs \in EventLists(held) : keyEvents + Len(evs) <= MaxKeyEvents}
    ELSE {<<>>}

\* game_round begins: reset_state, action = "None"
game_round_start ==
    /\ mode = "human" /\ pc = "game"
    /\ \E th \in HumanThetas : obj' = << reset_state_human(th) >>
    /\ action' = "None"
    /\ keyEvents' = 0
    /\ pc' = "round"
    /\ UNCHANGED << mode, variant, last, calls, aiVars, birdVars, poleVars, held, game_time,
                    high_score >>

\* one iteration of while not self.pendulum.is_dead: the events, then update_state
game_round_tick ==
    /\ mode = "human" /\ pc = "round"
    /\ ~obj[1].is_dead
    /\ obj[1].time < MaxTime
    /\ \E evs \in polls :
         \E act \in {handle_events(action, evs)} :
             /\ held' = hold_all(held, evs)
             /\ keyEvents' = keyEvents + Len(evs)
             /\ IF act = "exit"
                THEN /\ pc' = "exit"
                     /\ UNCHANGED << action, obj, last, game_time >>
                ELSE \E c \in {Call(1, act, obj[1])} :
                         /\ action' = act
                         /\ last' = c
                         /\ obj' = << c.out.state >>
                         /\ IF c.out.raised = "none"
                            THEN /\ game_time' = c.out.ret[1]
                                 /\ pc' = "round"
                            ELSE /\ pc' = "crashed"
                                 /\ UNCHANGED game_time
    /\ UNCHANGED << mode, variant, calls, aiVars, birdVars, poleVars, high_score >>

\* the pendulum is dead: the loop ends and the high score is updated
game_round_end ==
    /\ mode = "human" /\ pc = "round"
    /\ obj[1].is_dead
    /\ high_score' = IF game_time > high_score THEN game_time ELSE high_score
    /\ pc' = "end_of_round"
    /\ UNCHANGED << mode, variant, obj, last, calls, aiVars, birdVars, poleVars, action,
                    held, keyEvents, game_time >>

-----------------------------------------------------------------------------
(* run_bird of game/flappy.py *)

\* the variables run_bird has no use for
pendulumVars == << obj, last, calls, pendulums, tickLive, tick0, FAST_MODE, twin,
                  own, init0, humanVars, poleVars >>

\* while birds: a tick begins with the event poll; QUIT calls pygame.quit()
bird_while_enter ==
    /\ mode = "bird" /\ pc = "while"
    /\ birds # <<>>
    /\ ticks < MaxFrames
    /\ \E ev \in {"none", "QUIT"} :
          display' = (IF ev = "none" THEN display ELSE "quit")
    /\ i' = 1
    /\ pc' = "for"
    /\ UNCHANGED << mode, variant, pendulumVars, birdVars, nets, ge, net_of, fitness,
                    ticks, stepped, rewarded, penalties >>

\* while birds: the list is empty and run_bird returns
bird_while_exit ==
    /\ mode = "bird" /\ pc = "while"
    /\ birds = <<>>
    /\ pc' = "returned"
    /\ UNCHANGED << mode, variant, pendulumVars, birdVars, nets, ge, net_of, fitness,
                    i, ticks, display, stepped, rewarded, penalties >>

\* one iteration of for index, bird in enumerate(birds): the next_pipe lookup,
\* the inputs (AttributeError when next_pipe is None), the network, the bump
bird_for_body ==
    /\ mode = "bird" /\ pc = "for"
    /\ i <= Len(birds)
    /\ \E np \in {next_pipe(pipe_group)} :
          IF np = 0
          THEN /\ pc' = "crashed"
               /\ UNCHANGED << bird, i >>
          ELSE /\ bird' = [bird EXCEPT ![birds[i]] =
                             IF flaps(net_of[nets[i]], bird_inputs(@, pipe_group[np]))
                             THEN bump(@) ELSE @]
               /\ i' = enumerate_next(i)
               /\ pc' = "for"
    /\ UNCHANGED << mode, variant, pendulumVars, birds, pipe_group, ground_group, score,
                    nets, ge, net_of, fitness, ticks, display, stepped, rewarded,
                    penalties >>

\* the for loop is exhausted: the three sprite groups are updated, every genome
\* of ge gains 0.05, the background is drawn (pygame.error once pygame has been
\* quit), an off-screen first pipe pair is replaced by a new pair at
\* 2 * SCREEN_WIDHT with 5 points for every genome of ge, an off-screen first
\* ground sprite is replaced, and the removal pass begins
bird_sprites_update ==
    /\ mode = "bird" /\ pc = "for"
    /\ i > Len(birds)
    /\ bird' = [g \in DOMAIN bird |->
                  IF \E k \in 1 .. Len(birds) : birds[k] = g
                  THEN bird_update(bird[g]) ELSE bird[g]]
    /\ stepped' = [g \in DOMAIN stepped |->
                     IF \E k \in 1 .. Len(ge) : ge[k] = g
                     THEN stepped[g] + 1 ELSE stepped[g]]
    /\ \E moved \in {move_left(pipe_group)}, floor \in {move_left(ground_group)} :
         IF display = "quit"
         THEN /\ pc' = "render_error"
              /\ pipe_group' = moved
              /\ ground_group' = floor
              /\ fitness' = [g \in DOMAIN fitness |->
                               IF \E k \in 1 .. Len(ge) : ge[k] = g
                               THEN fitness[g] + TICK_FITNESS ELSE fitness[g]]
              /\ UNCHANGED << i, score, rewarded >>
         ELSE /\ pc' = "remove"
              /\ i' = reversed_first(Len(birds))
              /\ IF is_off_screen(moved[1].x, PIPE_WIDHT)
                 THEN /\ \E size \in PipeSizes :
                           pipe_group' = remove_first(remove_first(moved))
                                         \o get_random_pipes(SCREEN_WIDHT * 2, size)
                      /\ fitness' = [g \in DOMAIN fitness |->
                                       IF \E k \in 1 .. Len(ge) : ge[k] = g
                                       THEN fitness[g] + TICK_FITNESS + PIPE_FITNESS
                                       ELSE fitness[g]]
                      /\ rewarded' = [g \in DOMAIN rewarded |->
                                        IF \E k \in 1 .. Len(ge) : ge[k] = g
                                        THEN rewarded[g] + 1 ELSE rewarded[g]]
                      /\ score' = score + 1
                 ELSE /\ pipe_group' = moved
                      /\ fitness' = [g \in DOMAIN fitness |->
                                       IF \E k \in 1 .. Len(ge) : ge[k] = g
                                       THEN fitness[g] + TICK_FITNESS ELSE fitness[g]]
                      /\ UNCHANGED << rewarded, score >>
              /\ ground_group' = (IF is_off_screen(floor[1].x, GROUND_WIDHT)
                                  THEN remove_first(floor) \o << [x |-> NEW_GROUND_X] >>
                                  ELSE floor)
    /\ UNCHANGED << mode, variant, pendulumVars, birds, nets, ge, net_of, ticks,
                    display, penalties >>

\* one iteration of for i in reversed(range(len(birds))): a bird that hit the
\* ground or a pipe or is out of bounds is penalised and popped from the lists
bird_remove_body ==
    /\ mode = "bird" /\ pc = "remove"
    /\ i >= 1
    /\ IF \/ hit_ground(bird[birds[i]], ground_group)
          \/ hit_pipe(bird[birds[i]], pipe_group)
          \/ out_of_bounds(bird[birds[i]])
       THEN /\ fitness' = [fitness EXCEPT ![ge[i]] = @ - BIRD_PENALTY]
            /\ penalties' = [penalties EXCEPT ![ge[i]] = @ + 1]
            /\ birds' = pop_index(birds, i)
            /\ nets' = pop_index(nets, i)
            /\ ge' = pop_index(ge, i)
       ELSE UNCHANGED << fitness, penalties, birds, nets, ge >>
    /\ i' = i - 1
    /\ UNCHANGED << mode, variant, pc, pendulumVars, bird, pipe_group, ground_group,
                    score, net_of, ticks, display, stepped, rewarded >>

\* the removal pass is over: the score is drawn and the tick ends
bird_remove_end ==
    /\ mode = "bird" /\ pc = "remove"
    /\ i < 1
    /\ pc' = "while"
    /\ ticks' = ticks + 1
    /\ UNCHANGED << mode, variant, pendulumVars, birdVars, nets, ge, net_of, fitness,
                    i, display, stepped, rewarded, penalties >>

-----------------------------------------------------------------------------
(* Game.run of PoleBalancing/game/pole.py *)

\* the keys that can be down in this iteration
pole_keys ==
    IF frames % PoleKeyPeriod = 0 THEN PlayerInputs
    ELSE {IF player_input = "unbound" THEN "None" ELSE player_input}

\* result = self.handle_input() and its unpacking in run: QUIT or Escape
\* return False and leave player_input as it was, Space after game over
\* re-initialises the game, then the keys give the player input
pole_handle_input ==
    /\ mode = "pole" /\ pc = "input"
    /\ frames < MaxPoleFrames
    /\ \E ev \in PoleEvents, keys \in pole_keys :
          IF ev \in {"QUIT", "KEYDOWN:K_ESCAPE"}
          THEN /\ running' = FALSE
               /\ UNCHANGED << game, player_input >>
          ELSE /\ game' = (IF ev = "KEYDOWN:K_SPACE" /\ game.game_over
                           THEN NewGame ELSE game)
               /\ player_input' = keys
               /\ UNCHANGED running
    /\ frames' = frames + 1
    /\ pc' = "update"
    /\ UNCHANGED << mode, variant, obj, last, calls, aiVars, humanVars, birdVars,
                    updated >>

\* self.update(player_input), self.draw(), and the loop test of run; the
\* name player_input is unbound when the first handle_input returned False
pole_update ==
    /\ mode = "pole" /\ pc = "update"
    /\ IF player_input = "unbound"
       THEN /\ pc' = "crashed"
            /\ UNCHANGED << game, updated >>
       ELSE /\ updated' = << game >>
            /\ game' = game_update(game, player_input)
            /\ pc' = (IF running THEN "input" ELSE "exited")
    /\ UNCHANGED << mode, variant, obj, last, calls, aiVars, humanVars, birdVars,
                    player_input, running, frames >>

-----------------------------------------------------------------------------

Next ==
    \/ \E s \in SetStates : set_state(s)
    \/ \E act \in ActionInputs : call_update_state(act)
    \/ while_enter
    \/ while_exit
    \/ for_body
    \/ for_end
    \/ remove_body
    \/ remove_end
    \/ game_round_start
    \/ game_round_tick
    \/ game_round_end

Spec == Init /\ [][Next]_vars

\* run_bird of game/flappy.py
NextBird ==
    \/ bird_while_enter
    \/ bird_while_exit
    \/ bird_for_body
    \/ bird_sprites_update
    \/ bird_remove_body
    \/ bird_remove_end

SpecBird == InitBird /\ [][NextBird]_vars

\* Game.run of PoleBalancing/game/pole.py
NextPole ==
    \/ pole_handle_input
    \/ pole_update

SpecPole == InitPole /\ [][NextPole]_vars

\* the two evaluation loops over parallel lists, run_pendulum and run_bird
InitLoops == InitAi \/ InitBird

NextLoops ==
    \/ while_enter
    \/ while_exit
    \/ for_body
    \/ for_end
    \/ remove_body
    \/ remove_end
    \/ bird_while_enter
    \/ bird_while_exit
    \/ bird_for_body
    \/ bird_sprites_update
    \/ bird_remove_body
    \/ bird_remove_end

SpecLoops == InitLoops /\ [][NextLoops]_vars

-----------------------------------------------------------------------------
(* Properties *)

Range(seq) == {seq[k] : k \in 1 .. Len(seq)}

\* some update_state call has been made
Called == last.who # 0

\* the run_pendulum tick loop stands between two ticks, or has returned
TickBoundary == mode = "ai" /\ pc \in {"while", "returned"}

\* C1: update_state on a pendulum whose is_dead flag is set fails with an error
\* and leaves is_dead, time, x_cart, v_cart, theta and omega as they were, in
\* both variants.
C1_DeadCallRejected ==
    (Called /\ last.pre.is_dead) =>
        /\ last.out.raised \in {"RuntimeError:dead", "AssertionError"}
        /\ last.out.ret = <<>>
        /\ last.out.state = last.pre
        /\ obj[last.who] = last.pre

C1_Witness ==
    /\ mode = "unit" /\ variant = "ai"
    /\ last.pre.is_dead /\ last.action = "Right"
    /\ last.pre.v_cart = 3000
    /\ last.out.raised = "RuntimeError:dead"

\* C2: when a tick of run_pendulum is over, the live list holds exactly the
\* pendulums that were live when the tick began and are not dead: every
\* pendulum that died in the tick is gone and no live one is.
C2_RemovalExact ==
    (mode = "ai" /\ pc = "while" /\ ticks > 0) =>
        /\ \A k \in 1 .. Len(pendulums) : ~obj[pendulums[k]].is_dead
        /\ Range(pendulums) = {g \in tickLive : ~obj[g].is_dead}
        /\ Len(pendulums) = Cardinality(Range(pendulums))

C2_Witness ==
    /\ mode = "ai" /\ pc = "while"
    /\ tickLive = Ids
    /\ pendulums = <<2>>
    /\ obj[1].is_dead /\ ~obj[2].is_dead

\* C3: each genome gets the terminal penalty once, in the tick its pendulum
\* dies, and the per-tick reward once per tick it is stepped: after every tick
\* and when the run is over, each fitness is the sum of the per-tick rewards
\* over the genome's own trace, computed from its initial state alone, minus
\* one penalty if its pendulum is dead.
C3_FitnessAccounting ==
    /\ mode = "ai" =>
          \A g \in Ids : rewarded[g] <= 1 /\ penalties[g] <= 1
    /\ TickBoundary =>
          \A g \in Ids :
             /\ penalties[g] = (IF obj[g].is_dead THEN 1 ELSE 0)
             /\ ticks > 0 => rewarded[g] = (IF g \in tickLive THEN 1 ELSE 0)
    /\ TickBoundary =>
          \A g \in Ids :
             /\ own[g].state = obj[g]
             /\ own[g].state.time = (IF obj[g].is_dead THEN obj[g].time ELSE ticks)
             /\ fitness[g] = own[g].sum - penalties[g] * DEATH_PENALTY * FxOne

C3_Witness ==
    /\ mode = "ai" /\ pc = "returned"
    /\ penalties = [g \in Ids |-> 1]
    /\ obj[1].time > obj[2].time + 10

\* C4: in every tick of run_pendulum update_state is called exactly once on
\* each pendulum that was in the live list when the tick began, and on no other.
C4_SteppedOnce ==
    /\ (mode = "ai" /\ pc = "for") =>
          \A g \in Ids :
             stepped[g] = (IF \E k \in 1 .. Len(pendulums) : k < i /\ pendulums[k] = g
                           THEN 1 ELSE 0)
    /\ (mode = "ai" /\ (pc = "remove" \/ (pc = "while" /\ ticks > 0))) =>
          \A g \in Ids : stepped[g] = (IF g \in tickLive THEN 1 ELSE 0)

C4_Witness ==
    /\ mode = "ai" /\ pc = "remove"
    /\ tickLive = {2} /\ stepped = [g \in Ids |-> IF g = 2 THEN 1 ELSE 0]
    /\ obj[1].is_dead

\* C5: run_pendulum and game_round never call update_state on a dead pendulum,
\* so the "state was dead" error never reaches them.
C5_DriversStepLiveOnly ==
    (mode \in {"ai", "human"}) =>
        /\ pc # "crashed"
        /\ Called => (~last.pre.is_dead /\ last.out.raised = "none")

C5_Witness ==
    /\ mode = "ai" /\ last.who = 2
    /\ obj[1].is_dead /\ obj[2].time > obj[1].time + 5

\* C6: is_dead is monotonic: once a pendulum is dead, no update_state call and
\* no later step of the same round or generation makes it live again.
C6_DeadStaysDead ==
    [][ (pc \notin {"constructed", "game"}) =>
          /\ DOMAIN obj' = DOMAIN obj
          /\ \A g \in DOMAIN obj : obj[g].is_dead => obj'[g].is_dead ]_vars

C6_Witness ==
    /\ mode = "human" /\ pc = "end_of_round"
    /\ obj[1].is_dead /\ last.out.state.is_dead /\ ~last.pre.is_dead
    /\ high_score = obj[1].time

\* C7: an update_state call that returns adds exactly 1 to time, and a call
\* that fails leaves time as it was.
C7_TimeStep ==
    Called =>
        /\ last.out.raised = "none" => last.out.state.time = last.pre.time + 1
        /\ last.out.raised # "none" => last.out.state.time = last.pre.time

\* the call got past the str assertion and the dead check: the update ran
Stepped == Called /\ ~last.pre.is_dead /\ last.action # NonStr

InWindow(x) == LeftBound <= x /\ x <= RightBound

\* C8 as stated: after every update_state call, from any prior position and
\* velocity, CARTWIDTH/2 <= x_cart <= WINDOWWIDTH - CARTWIDTH/2.
C8_AlwaysInWindow == Called => InWindow(last.out.state.x_cart)

\* C8, amended: after every update_state call on a pendulum that is not dead,
\* with a str action, the cart is within the wall bounds, whether the call
\* returns or raises on the action.
C8_InWindowWhenStepped ==
    Stepped => (InWindow(last.out.state.x_cart) /\ InWindow(obj[last.who].x_cart))

C8_Witness ==
    /\ Stepped /\ last.out.raised = "none"
    /\ last.pre.x_cart = RightBound + 250 /\ last.pre.v_cart = 3000
    /\ last.out.state.x_cart = RightBound

\* x_cart += v_cart carries the cart to or past a wall bound
Carried ==
    /\ Stepped
    /\ last.action \in {"Left", "Right", "None"}
    /\ \/ last.pre.x_cart + last.pre.v_cart <= LeftBound
       \/ last.pre.x_cart + last.pre.v_cart >= RightBound

\* the wall the cart is carried to
WallHit ==
    IF last.pre.x_cart + last.pre.v_cart <= LeftBound THEN LeftBound ELSE RightBound

\* C9 as stated: when the position update carries the cart to or past a wall,
\* then after the call, for any action, the position is the wall bound and the
\* velocity held by the state and returned is 0.
C9_StoppedAtWall ==
    Carried =>
        /\ last.out.state.x_cart = WallHit
        /\ last.out.state.v_cart = 0
        /\ last.out.ret[3] = 0

\* C9, amended: when the position update carries the cart to or past a wall,
\* then after the call the position is the wall bound and the velocity held by
\* the state and returned is the action applied to a velocity of 0: 0 for
\* "None", -A_CART for "Left", +A_CART for "Right".
C9_ClampThenAct ==
    Carried =>
        /\ last.out.raised = "none"
        /\ last.out.state.x_cart = WallHit
        /\ last.out.state.v_cart =
              (IF last.action = "Left" THEN -A_CART
               ELSE IF last.action = "Right" THEN A_CART ELSE 0)
        /\ last.out.ret[2] = last.out.state.x_cart
        /\ last.out.ret[3] = last.out.state.v_cart

C9_Witness ==
    /\ Carried
    /\ last.pre.x_cart = RightBound - 100 /\ last.pre.v_cart = 100
    /\ last.action = "Left"
    /\ last.out.state.x_cart = RightBound /\ last.out.state.v_cart = -A_CART

\* C10: after an update_state call that returns, is_dead holds exactly if
\* |theta| >= pi/2, or the class is the multi-agent one and the cart stands on a
\* wall bound: wall contact alone kills in the multi-agent variant and never in
\* human play.
C10_TerminalCheck ==
    (Called /\ last.out.raised = "none") =>
        (last.out.state.is_dead <=>
            \/ Abs(last.out.state.theta) >= HALF_PI_UP
            \/ /\ variant = "ai"
               /\ last.out.state.x_cart \in {LeftBound, RightBound})

C10_Witness ==
    /\ variant = "ai" /\ last.out.raised = "none"
    /\ last.out.state.x_cart = LeftBound
    /\ Abs(last.out.state.theta) < HALF_PI_UP
    /\ last.out.state.is_dead
\* the loop has run no longer than the longest-lived agent: every dead agent
\* died at one of the completed ticks and every live one has been stepped in
\* all of them
TicksAreOwnTicks ==
    \A g \in Ids :
        IF obj[g].is_dead THEN obj[g].time <= ticks ELSE obj[g].time = ticks

\* C11: a generation whose agents all die within B ticks of their own runs into
\* the Exhausted state within B ticks: the tick loop counts the agents' own
\* ticks, at its head the live list is empty exactly when every agent is dead,
\* its body runs only with a live pendulum, and run_pendulum returns only with
\* an empty live list, all agents dead, after as many ticks as the longest-lived
\* agent took.
C11_Exhaustion ==
    mode = "ai" =>
        /\ pc \in {"for", "remove"} => tickLive # {}
        /\ pc = "while" =>
              /\ TicksAreOwnTicks
              /\ (pendulums = <<>>) <=> (\A g \in Ids : obj[g].is_dead)
        /\ pc = "returned" =>
              /\ pendulums = <<>> /\ ge = <<>> /\ nets = <<>>
              /\ TicksAreOwnTicks
              /\ \A g \in Ids : obj[g].is_dead
              /\ \E g \in Ids : obj[g].time = ticks

C11_Witness ==
    /\ mode = "ai" /\ pc = "returned"
    /\ obj[1].time = ticks /\ obj[2].time < ticks
    /\ ticks > 50
\* the agents that became terminal in the tick that is running or just over
NewlyDead == {g \in tickLive : obj[g].is_dead}

\* C12 as stated: from each tick to the next the live-agent count strictly
\* decreases, until it is zero.
C12_StrictlyDecreases ==
    (mode = "ai" /\ pc = "while" /\ ticks > 0) =>
        Len(pendulums) < Cardinality(tickLive)

\* C12, amended: the live-agent count never increases from one tick to the
\* next; over a tick it drops by exactly the number of agents that became
\* terminal in that tick, so it stays the same over a tick in which no agent
\* dies and is zero once every agent has died.
C12_DropsByDeaths ==
    /\ (mode = "ai" /\ pc = "for") => Len(pendulums) = Cardinality(tickLive)
    /\ (mode = "ai" /\ pc = "remove") =>
          /\ Len(pendulums) <= Cardinality(tickLive)
          /\ Len(pendulums) >= Cardinality(tickLive) - Cardinality(NewlyDead)
    /\ (mode = "ai" /\ pc \in {"while", "returned"} /\ ticks > 0) =>
          /\ Len(pendulums) = Cardinality(tickLive) - Cardinality(NewlyDead)
          /\ Len(pendulums) = Cardinality({g \in Ids : ~obj[g].is_dead})

C12_Witness ==
    /\ mode = "ai" /\ pc = "while"
    /\ tickLive = {2} /\ pendulums = <<2>>
    /\ obj[1].is_dead /\ obj[1].time + 3 < ticks
\* C13: an update_state call with an action outside {Left, Right, None} raises
\* an error instead of coercing the action, and the update is atomic: the failed
\* call leaves time, x_cart, v_cart, theta, omega and is_dead as they were.
C13_InvalidActionAtomic ==
    (Called /\ last.action \notin {"Left", "Right", "None"}) =>
        /\ last.out.raised # "none"
        /\ last.out.ret = <<>>
        /\ last.out.state = last.pre
        /\ obj[last.who] = last.pre
\* the genome's fitness was charged the terminal penalty in the running tick
PenalisedInTick(g) == g \in tickLive /\ penalties[g] = 1 /\ g \notin Range(pendulums)

\* C14: within a tick of run_pendulum every agent's pendulum state and fitness
\* are a function of that agent's own state and fitness at the start of the
\* tick: an agent that has not been stepped yet is as it was, however many
\* others have been stepped and scored, and an agent that has been stepped is
\* at the update_state outcome of its own tick-start state, with its own reward
\* (and its own penalty) added to its own tick-start fitness.  So the post-tick
\* state of each agent is the same for every order of stepping.
C14_Independence ==
    (mode = "ai" /\ pc \in {"for", "remove", "while", "returned"}) =>
        \A g \in Ids :
           \A mine \in {update_state_ai(tick0.obj[g],
                                       decide(net_of[g], tick0.obj[g]))} :
              /\ stepped[g] <= 1
              /\ obj[g] = (IF stepped[g] = 1 THEN mine.state ELSE tick0.obj[g])
              /\ fitness[g] = tick0.fitness[g]
                    + (IF stepped[g] = 1 THEN tick_reward(mine.state) ELSE 0)
                    - (IF PenalisedInTick(g) THEN DEATH_PENALTY * FxOne ELSE 0)

C14_Witness ==
    /\ mode = "ai" /\ pc = "for" /\ i = 2 /\ ticks > 3
    /\ stepped[1] = 1 /\ stepped[2] = 0
    /\ obj[1] # tick0.obj[1] /\ fitness[1] # tick0.fitness[1]
    /\ obj[2] = tick0.obj[2] /\ fitness[2] = tick0.fitness[2]
    /\ obj[1].is_dead
\* the physics and fitness variables of the run and the three lists
PhysicsAndFitness ==
    [obj |-> obj, fitness |-> fitness, pendulums |-> pendulums,
     nets |-> nets, ge |-> ge]

\* C15: FAST_MODE changes no physics or fitness variable: a rendered run
\* (FAST_MODE false) and a headless run of the same genomes, initial states and
\* networks have the same pendulum states, the same live lists and the same
\* fitness values after every tick and at the return of run_pendulum, and inside
\* a tick every agent is at its headless value from before or after its step
\* (a rendered run that the user closes stops on the way).
C15_FastModeEquivalence ==
    mode = "ai" =>
        /\ pc \in {"while", "returned"} => PhysicsAndFitness = twin
        /\ pc \in {"for", "remove", "render_error", "exited"} =>
              \A after \in {fast_step_all(twin, 1)} :
              \A over \in {fast_remove_all(after, Len(after.pendulums))} :
                 /\ \A g \in Ids :
                       /\ obj[g] \in {twin.obj[g], after.obj[g]}
                       /\ fitness[g] \in {twin.fitness[g], after.fitness[g],
                                          over.fitness[g]}
                 /\ pc = "for" =>
                       /\ pendulums = twin.pendulums
                       /\ nets = twin.nets /\ ge = twin.ge
                 /\ (pc = "remove" /\ i = 0) => PhysicsAndFitness = over

C15_Witness ==
    /\ mode = "ai" /\ ~FAST_MODE /\ pc = "returned"
    /\ PhysicsAndFitness = twin
    /\ ticks > 50
    /\ fitness[1] # fitness[2]
    /\ obj[1].time # obj[2].time
\* the action that stands for the keys held
HeldAction(keys) ==
    IF keys = {"K_LEFT"} THEN "Left"
    ELSE IF keys = {"K_RIGHT"} THEN "Right"
    ELSE IF keys = {} THEN "None"
    ELSE "any"

\* C16: in game_round the action passed to update_state in a tick reflects the
\* keys held after the events of that tick: Left when only Left is held, Right
\* when only Right is held, None when neither is held.
C16_ActionReflectsHeld ==
    (mode = "human" /\ pc \in {"round", "end_of_round", "crashed"} /\ Called) =>
        /\ last.action = action
        /\ HeldAction(held) \in {"any", last.action}
C18_FinalAtRemoval ==
    [][ mode = "ai" =>
          \A g \in Ids : (g \notin Range(ge)) => fitness'[g] = fitness[g] ]_vars

C18_Witness ==
    /\ mode = "ai" /\ pc = "remove"
    /\ ge = <<2>> /\ penalties[1] = 1
    /\ ticks > obj[1].time + 5
    /\ fitness[1] = tick0.fitness[1]
    /\ fitness[2] # tick0.fitness[2]

\* the gravity constant of the class in use
Gravity == IF variant = "human" THEN GRAVITY_HUMAN ELSE GRAVITY_AI

\* C19: inside one update_state the angle update uses the velocity left by the
\* position update and wall clamp, not yet changed by the action of the call;
\* the angular-velocity update uses the angle it has just updated; and the
\* action changes the velocity only, so position, angle and angular velocity
\* after the call are the same for every action and the action shows in the
\* position and angle of the next call.
C19_OrderOfEffects ==
    (Stepped /\ last.out.raised = "none") =>
        \A x1 \in {last.pre.x_cart + last.pre.v_cart} :
        \A v1 \in {IF x1 <= LeftBound \/ x1 >= RightBound THEN 0
                   ELSE last.pre.v_cart} :
           /\ last.out.state.x_cart =
                 (IF x1 <= LeftBound THEN LeftBound
                  ELSE IF x1 >= RightBound THEN RightBound ELSE x1)
           /\ last.out.state.theta =
                 last.pre.theta + last.pre.omega
                 + TDiv(FxMul(v1 * (FxOne \div PosScale), np_cos[last.pre.theta]),
                        PENDULUMLENGTH)
           /\ last.out.state.omega =
                 last.pre.omega
                 + TDiv(TDiv(Gravity * np_sin[last.out.state.theta], 1000),
                        PENDULUMLENGTH)
           /\ \A a \in {"Left", "Right", "None"} :
                 \A alt \in {update_state(variant, last.pre, a).state} :
                    /\ alt.x_cart = last.out.state.x_cart
                    /\ alt.theta = last.out.state.theta
                    /\ alt.omega = last.out.state.omega

C19_Witness ==
    /\ Stepped /\ last.out.raised = "none"
    /\ last.action = "Left"
    /\ last.pre.v_cart = 100 /\ last.pre.theta = QUARTER_PI_DOWN + 1
    /\ last.pre.omega = 300
    /\ last.out.state.v_cart = 100 - A_CART
    /\ last.out.state.x_cart = last.pre.x_cart + 100
    /\ last.out.state.theta > last.pre.theta + last.pre.omega
    /\ last.out.state.omega > last.pre.omega

\* the state mirrored about the centre of the world, pendulum leaning the
\* other way
Mirrored(s) ==
    [s EXCEPT !.x_cart = WINDOWWIDTH * PosScale - s.x_cart, !.theta = -s.theta]

\* C20: the per-tick reward depends on the angle only through |theta| and on the
\* position only through the distance from the centre: a post-step state and
\* its mirror image earn the same reward.
C20_RewardSymmetric ==
    (mode = "ai" /\ Called /\ last.out.raised = "none") =>
        tick_reward(last.out.state) = tick_reward(Mirrored(last.out.state))
\* upright, at rest, away from the walls
AtEquilibrium(s) ==
    /\ ~s.is_dead
    /\ s.theta = 0 /\ s.omega = 0 /\ s.v_cart = 0
    /\ LeftBound < s.x_cart /\ s.x_cart < RightBound

\* C21: the upright equilibrium is a fixed point under no input: update_state
\* ("None") on a live pendulum with theta = 0, omega = 0 and v_cart = 0 away from
\* the walls returns and changes nothing but time, and an agent of run_pendulum
\* that starts there and always answers "None" is still there, live, after any
\* number of ticks.
C21_UprightFixedPoint ==
    /\ (Called /\ last.action = "None" /\ AtEquilibrium(last.pre)) =>
          /\ last.out.raised = "none"
          /\ last.out.state = [last.pre EXCEPT !.time = @ + 1]
          /\ last.out.ret = << last.pre.time + 1, last.pre.x_cart, 0, 0, 0 >>
    /\ mode = "ai" =>
          \A g \in Ids :
             (AtEquilibrium(init0[g]) /\ net_of[g] = "coast") =>
                 /\ obj[g] = [init0[g] EXCEPT !.time = obj[g].time]
                 /\ pc \in {"while", "returned"} => obj[g].time = ticks

C21_Witness ==
    /\ mode = "ai" /\ pc = "while"
    /\ AtEquilibrium(init0[1]) /\ net_of[1] = "coast"
    /\ last.who = 1 /\ last.action = "None" /\ AtEquilibrium(last.pre)
    /\ obj[1].time = ticks /\ ticks >= 80
    /\ AtEquilibrium(obj[1])

\* the run_bird tick loop stands between two ticks, or has returned
BirdTickBoundary == mode = "bird" /\ pc \in {"while", "returned"}

\* bird g overlaps a pipe or the ground or is above or below the screen
Struck(g) ==
    \/ hit_ground(bird[g], ground_group)
    \/ hit_pipe(bird[g], pipe_group)
    \/ bird[g].y > SCREEN_HEIGHT
    \/ bird[g].y < 0

Aligned(agents, networks, genomes) ==
    /\ Len(agents) = Len(networks) /\ Len(networks) = Len(genomes)
    /\ \A k \in 1 .. Len(genomes) :
          /\ agents[k] = genomes[k] /\ networks[k] = genomes[k]
          /\ \A j \in 1 .. (k - 1) : genomes[j] < genomes[k]

PipeAhead ==
    \E k \in 1 .. Len(pipe_group) :
        ~pipe_group[k].inverted /\ pipe_group[k].x + PIPE_WIDHT > BIRD_LEFT

\* C24: in run_bird, in every state of every tick, before and after every
\* recycling of a pipe pair, there is a non-inverted pipe whose right edge is
\* to the right of the birds' left edge, so the next_pipe lookup never yields
\* None and building the inputs never fails; the pipes come in pairs, bottom
\* pipe first, in increasing x, the last pair right of the screen's middle
C24_NextPipeExists ==
    mode = "bird" =>
      /\ PipeAhead
      /\ pc # "crashed"
      /\ pc = "for" => next_pipe(pipe_group) # 0
      /\ Len(pipe_group) = 4
      /\ \A k \in {1, 3} :
            /\ ~pipe_group[k].inverted /\ pipe_group[k + 1].inverted
            /\ pipe_group[k].x = pipe_group[k + 1].x
      /\ pipe_group[1].x < pipe_group[3].x
      /\ pipe_group[3].x > SCREEN_WIDHT \div 2

\* a bird's inputs are about to be built after two recyclings, while the first
\* pipe pair of the group is already behind the bird, so that the lookup has
\* to pass over it and finds the pair inserted at the last recycling
C24_Witness ==
    /\ mode = "bird" /\ pc = "for" /\ i <= Len(birds)
    /\ score >= 2
    /\ pipe_group[1].x + PIPE_WIDHT <= BIRD_LEFT
    /\ next_pipe(pipe_group) = 3
    /\ pipe_group[3].x > BIRD_LEFT


\* the pole game stands right after a Game.update call
AfterUpdate == mode = "pole" /\ pc \in {"input", "exited"} /\ updated # << >>

\* C25: in the pole game game_over is true exactly when |pipe.angle| has
\* reached MAX_ANGLE, so it is set by the first Game.update that brings the
\* angle there; a Game.update of a game that is over, whatever the player
\* input, leaves pipe.angle, pipe.angular_velocity, time, balanced_time,
\* score and game_over as they were, and an update of a running game counts
\* one frame
C25_GameOverFreezes ==
    mode = "pole" =>
      /\ game.game_over <=> Abs(game.angle) >= MAX_ANGLE * FxOne
      /\ Abs(game.angle) <= MAX_ANGLE * FxOne
      /\ AfterUpdate =>
            /\ updated[1].game_over => game = updated[1]
            /\ ~updated[1].game_over => game.time = updated[1].time + 1
            /\ (game.game_over /\ ~updated[1].game_over) =>
                   Abs(updated[1].angle) < MAX_ANGLE * FxOne

\* a Game.update has just been called with the right key held on a game that
\* was over before the call, and has changed nothing
C25_Witness ==
    /\ AfterUpdate /\ pc = "input"
    /\ player_input = "right"
    /\ updated[1].game_over /\ game.game_over
    /\ game = updated[1] /\ game.time < frames - 2
    /\ game.angle = -(MAX_ANGLE * FxOne)

=============================================================================
